---- MODULE Spec2Model ----
(***************************************************************************)
(* Matchmaking and signaling relay of the video chat server               *)
(* (src/unnamed/part_005, lines 157-449): the in-memory registries        *)
(* connectedUsers, waitingUsers and activeRooms, the socket.io rooms of   *)
(* every socket, and the handlers of the client events.  Handlers run on  *)
(* one event loop: a handler runs without interruption up to its next     *)
(* await, so every action below is one such uninterrupted stretch.        *)
(* The handshake is the socket.io middleware authenticateSocket            *)
(* (src/sever/middleware/rateLimiting.js, lines 131-157).                  *)
(* The refresh-token table and the POST /refresh route are lines 24-96   *)
(* and 635-680 of part_005.                                               *)
(***************************************************************************)
EXTENDS Integers, Sequences, FiniteSets, TLC

\* ---------------------------------------------------------------- bounds
MaxSockets == 3      \* connections ever accepted (socket ids are never reused)
MaxRooms == 2        \* rooms ever created
MaxPending == 1      \* find-match handlers of one socket awaiting their query
MaxTicks == 1        \* clock steps
MaxSent == 2         \* relay events clients send in all
MaxRequests == 3     \* POST /refresh requests ever received
MaxSeconds == 2      \* seconds the token clock runs

\* ------------------------------------------------------------- constants
RoomMaxAgeMs == 3600000   \* age above which the sweep removes a room
RefreshLifetimeSec == 604800   \* 7 days: life of a refresh token

Sockets == 1..MaxSockets
\* room ids produced by generateRoomId, in order of creation
RoomIds == (MaxSockets + 1)..(MaxSockets + MaxRooms)
\* a client may put any string in data.roomId: a room id or a socket id
\* (socket.io joins every socket to a room named by its own id)
RoomNames == Sockets \cup RoomIds
Payloads == {"p1", "p2"}
\* what a handshake can carry: no token, a token with a bad signature, an
\* expired token, or a good token of an unknown, an inactive or an active user
Credentials == {"none", "invalid", "expired", "unknown", "inactive", "valid"}
Requests == 1..MaxRequests
Seconds == 0..MaxSeconds
\* what the body of POST /refresh can carry: no refreshToken, a string that
\* jwt.verify rejects, or a token signed by this server
BodyKinds == {"none", "forged", "signed"}
RelayKinds == {"webrtc-offer", "webrtc-answer", "webrtc-ice-candidate",
               "chat-message", "toggle-camera", "toggle-mic"}

VARIABLES
    connectedUsers,  \* Map socket.id -> socket: the set of its keys
    waitingUsers,    \* Set of socket ids, in insertion order
    activeRooms,     \* Map roomId -> [users, createdAt]
    roomCount,       \* number of ids generateRoomId has produced
    rooms,           \* socket.rooms: the socket.io rooms each socket is joined to
    open,            \* the transport of the socket is connected
    phase,           \* "new" | "refused" | "inserting" | "attached": position of
                     \* the handshake and of io.on("connection")
    fm,              \* find-match handlers of the socket awaiting the SELECT
    dpc,             \* position of the socket's disconnect handler
    droom,           \* room the disconnect handler found before its awaits
    now,             \* wall clock, ms
    ticks,           \* clock steps taken
    sweep,           \* the periodic cleanup: [pc, now, pos]
    emits,           \* events emitted by the last step, in order
    inbox,           \* relay events each client has sent that the server has
                     \* not dispatched yet, in the order of the transport
    recv,            \* relay events emitted to each socket so far, in order
    sent,            \* number of relay events clients have sent
    refreshTokens,   \* table refresh_tokens: token -> [is_revoked, expires_at]
    req,             \* POST /refresh requests: position, body and response
    clock            \* wall clock, seconds

vars == <<connectedUsers, waitingUsers, activeRooms, roomCount, rooms, open,
          phase, fm, dpc, droom, now, ticks, sweep, emits, inbox, recv, sent,
          refreshTokens, req, clock>>

\* ---------------------------------------------------------------- helpers
Range(f) == {f[i] : i \in DOMAIN f}

\* Set.delete on an insertion-ordered Set
SeqDelete(q, x) == SelectSeq(q, LAMBDA y : y # x)

\* mutant: Set.add that adds nothing
SeqAdd_dropped(q, x) == q

\* Set.add on an insertion-ordered Set
SeqAdd(q, x) == IF x \in Range(q) THEN q ELSE Append(q, x)

\* Map.delete
MapDelete(m, k) == [j \in (DOMAIN m) \ {k} |-> m[j]]

Min(S) == CHOOSE x \in S : \A y \in S : x <= y

RECURSIVE SetToSeq(_)
SetToSeq(S) == IF S = {} THEN <<>> ELSE <<Min(S)>> \o SetToSeq(S \ {Min(S)})

\* sockets joined to the socket.io room `name`
Members(name) == {t \in Sockets : name \in rooms[t]}

\* socket.to(name).emit(...): every socket joined to `name` but the sender
BroadcastTargets(s, name) == SetToSeq(Members(name) \ {s})

\* room.users.find((id) => id !== socket.id)
OtherUser(users, s) ==
    IF users[1] # s THEN users[1] ELSE users[2]

\* socket.join / socket.leave on the rooms of socket t; after the transport
\* closed socket.io has left every room and the socket joins no room again
Join(RM, t, r) == IF open[t] THEN [RM EXCEPT ![t] = @ \cup {r}] ELSE RM
Leave(RM, t, r) == [RM EXCEPT ![t] = @ \ {r}]

generateRoomId(count) == MaxSockets + count + 1

\* rows of "SELECT room_id FROM user_sessions WHERE ... room_id IS NOT NULL":
\* the only statement that writes user_sessions rows is the INSERT of the
\* connection handler, which leaves room_id NULL
ExistingSessionRows(s) == {}

\* ------------------------------------------------------------- findMatch
\* mutant: the session that was waiting is told to initiate
MatchedEvents_swapped(userId, waitingUserId, roomId) ==
    << [to |-> userId, ev |-> "matched", roomId |-> roomId,
        partnerId |-> waitingUserId, isInitiator |-> FALSE],
       [to |-> waitingUserId, ev |-> "matched", roomId |-> roomId,
        partnerId |-> userId, isInitiator |-> TRUE] >>

\* the two matched events of a pairing: to the caller, then to the partner
MatchedEvents(userId, waitingUserId, roomId) ==
    << [to |-> userId, ev |-> "matched", roomId |-> roomId,
        partnerId |-> waitingUserId, isInitiator |-> TRUE],
       [to |-> waitingUserId, ev |-> "matched", roomId |-> roomId,
        partnerId |-> userId, isInitiator |-> FALSE] >>

\* mutant: the pairing leaves the selected partner in the waiting list
RemovePartner_kept(W, waitingUserId) == W

\* waitingUsers.delete(waitingUserId) of the pairing branch
RemovePartner(W, waitingUserId) == SeqDelete(W, waitingUserId)

\* mutant: the caller is not taken out of waitingUsers first and the loop
\* does not skip the caller's own id
findMatchAt_noSelfCheck(userId, W, AR, RM, count) ==
    LET cand == {i \in DOMAIN W : /\ userId \in connectedUsers
                                  /\ W[i] \in connectedUsers}
    IN  IF cand # {}
        THEN LET waitingUserId == W[Min(cand)]
                 roomId == generateRoomId(count)
             IN  [matched |-> TRUE,
                  waiting |-> RemovePartner(W, waitingUserId),
                  rms |-> Join(Join(RM, userId, roomId), waitingUserId, roomId),
                  active |-> [j \in (DOMAIN AR) \cup {roomId} |->
                                IF j = roomId
                                THEN [users |-> <<userId, waitingUserId>>,
                                      createdAt |-> now]
                                ELSE AR[j]],
                  count |-> count + 1,
                  out |-> MatchedEvents(userId, waitingUserId, roomId)]
        ELSE [matched |-> FALSE,
              waiting |-> SeqAdd(W, userId),
              rms |-> RM,
              active |-> AR,
              count |-> count,
              out |-> <<>>]

\* mutant: the loop over waitingUsers never selects a partner
findMatchAt_neverPairs(userId, W, AR, RM, count) ==
    [matched |-> FALSE,
     waiting |-> SeqAdd(SeqDelete(W, userId), userId),
     rms |-> RM,
     active |-> AR,
     count |-> count,
     out |-> <<>>]

\* findMatch(userId) run on waiting list W, room map AR and socket rooms RM
\* when generateRoomId has produced count ids
findMatchAt(userId, W, AR, RM, count) ==
    LET W1 == SeqDelete(W, userId)
        cand == {i \in DOMAIN W1 : /\ W1[i] # userId
                                   /\ userId \in connectedUsers
                                   /\ W1[i] \in connectedUsers}
    IN  IF cand # {}
        THEN LET waitingUserId == W1[Min(cand)]
                 roomId == generateRoomId(count)
             IN  [matched |-> TRUE,
                  waiting |-> RemovePartner(W1, waitingUserId),
                  rms |-> Join(Join(RM, userId, roomId), waitingUserId, roomId),
                  active |-> [j \in (DOMAIN AR) \cup {roomId} |->
                                IF j = roomId
                                THEN [users |-> <<userId, waitingUserId>>,
                                      createdAt |-> now]
                                ELSE AR[j]],
                  count |-> count + 1,
                  out |-> MatchedEvents(userId, waitingUserId, roomId)]
        ELSE [matched |-> FALSE,
              waiting |-> SeqAdd(W1, userId),
              rms |-> RM,
              active |-> AR,
              count |-> count,
              out |-> <<>>]

\* findMatch(userId) in the current state
findMatch(userId, W, AR, RM) == findMatchAt(userId, W, AR, RM, roomCount)

\* -------------------------------------------------------------------- Init
NoRoom == [id |-> 0, users |-> <<>>]
\* a request that has not arrived: pair is the refresh token of the pair the
\* handler generated, if any
NoRequest == [pc |-> "idle", kind |-> "none", token |-> 0, status |-> 0,
              pair |-> <<>>]
SweepIdle == [pc |-> "idle", now |-> 0, pos |-> 0]

Init ==
    /\ connectedUsers = {}
    /\ waitingUsers = <<>>
    /\ activeRooms = [j \in {} |-> NoRoom]
    /\ roomCount = 0
    /\ rooms = [s \in Sockets |-> {}]
    /\ open = [s \in Sockets |-> FALSE]
    /\ phase = [s \in Sockets |-> "new"]
    /\ fm = [s \in Sockets |-> 0]
    /\ dpc = [s \in Sockets |-> "idle"]
    /\ droom = [s \in Sockets |-> NoRoom]
    /\ now = 0
    /\ ticks = 0
    /\ sweep = SweepIdle
    /\ emits = <<>>
    /\ inbox = [s \in Sockets |-> <<>>]
    /\ recv = [s \in Sockets |-> <<>>]
    /\ sent = 0
    /\ refreshTokens = [t \in {} |-> [is_revoked |-> FALSE, expires_at |-> 0]]
    /\ req = [q \in Requests |-> NoRequest]
    /\ clock = 0

\* ------------------------------------------------------------ handshake
\* verifyAccessToken(token): jwt.verify throws on a bad signature and on an
\* expired token; either is rethrown as Error("Invalid access token")
verifyAccessToken(token) ==
    IF token \in {"invalid", "expired"}
    THEN [ok |-> FALSE, message |-> "Invalid access token"]
    ELSE [ok |-> TRUE, message |-> ""]

\* mutant: the lookup result is not checked, any verified token is accepted
authenticateSocket_noUserCheck(cred, dbOk) ==
    IF cred = "none"
    THEN [ok |-> FALSE, message |-> "Authentication error: No token provided"]
    ELSE IF ~verifyAccessToken(cred).ok \/ ~dbOk
    THEN [ok |-> FALSE, message |-> "Authentication error: Invalid token"]
    ELSE [ok |-> TRUE, message |-> ""]

\* authenticateSocket(socket, next) for a handshake carrying cred, when the
\* SELECT on users resolves (dbOk) or rejects: what it passes to next()
authenticateSocket(cred, dbOk) ==
    IF cred = "none"
    THEN [ok |-> FALSE, message |-> "Authentication error: No token provided"]
    ELSE IF ~verifyAccessToken(cred).ok \/ ~dbOk
    THEN [ok |-> FALSE, message |-> "Authentication error: Invalid token"]
    ELSE IF cred \in {"unknown", "inactive"}
    THEN [ok |-> FALSE,
          message |-> "Authentication error: User not found or inactive"]
    ELSE [ok |-> TRUE, message |-> ""]

\* ---------------------------------------------------------------- actions
\* io.on("connection") up to its await: an authenticated socket is registered
Connect(s) ==
    /\ phase[s] = "new"
    /\ \A t \in Sockets : t < s => phase[t] # "new"
    /\ connectedUsers' = connectedUsers \cup {s}
    /\ open' = [open EXCEPT ![s] = TRUE]
    /\ rooms' = [rooms EXCEPT ![s] = {s}]
    /\ phase' = [phase EXCEPT ![s] = "inserting"]
    /\ emits' = <<>>
    /\ UNCHANGED <<waitingUsers, activeRooms, roomCount, fm, dpc, droom, now, ticks, sweep>>

\* next(err): socket.io refuses the connection with a connect_error packet
\* carrying err.message; io.on("connection") never runs for the socket
Refuse(s, message) ==
    /\ phase[s] = "new"
    /\ \A t \in Sockets : t < s => phase[t] # "new"
    /\ phase' = [phase EXCEPT ![s] = "refused"]
    /\ emits' = <<[to |-> s, ev |-> "connect_error", message |-> message]>>
    /\ UNCHANGED <<connectedUsers, waitingUsers, activeRooms, roomCount, rooms,
                   open, fm, dpc, droom, now, ticks, sweep>>

\* a client connects with credential cred: io.use(authenticateSocket), then
\* the connection handler or the refusal
Handshake(s, cred, dbOk) ==
    LET auth == authenticateSocket(cred, dbOk)
    IN  IF auth.ok THEN Connect(s) ELSE Refuse(s, auth.message)

\* the INSERT settled (its failure is caught and logged): socket.on(...) calls
AttachHandlers(s) ==
    /\ phase[s] = "inserting"
    /\ phase' = [phase EXCEPT ![s] = "attached"]
    /\ emits' = <<>>
    /\ UNCHANGED <<connectedUsers, waitingUsers, activeRooms, roomCount, rooms,
                   open, fm, dpc, droom, now, ticks, sweep>>

\* a find-match event arrives: the handler runs up to `await query(SELECT ...)`
FindMatchEvent(s) ==
    /\ open[s]
    /\ phase[s] = "attached"
    /\ fm[s] < MaxPending
    /\ fm' = [fm EXCEPT ![s] = @ + 1]
    /\ emits' = <<>>
    /\ UNCHANGED <<connectedUsers, waitingUsers, activeRooms, roomCount, rooms,
                   open, phase, dpc, droom, now, ticks, sweep>>

\* the SELECT resolved: the rest of the find-match handler
FindMatchResume(s) ==
    /\ fm[s] > 0
    /\ roomCount < MaxRooms
    /\ fm' = [fm EXCEPT ![s] = @ - 1]
    /\ IF ExistingSessionRows(s) # {}
       THEN /\ emits' = <<[to |-> s, ev |-> "already-in-room",
                           roomId |-> CHOOSE r \in ExistingSessionRows(s) : TRUE]>>
            /\ UNCHANGED <<waitingUsers, activeRooms, roomCount, rooms>>
       ELSE LET m == findMatch(s, waitingUsers, activeRooms, rooms)
            IN  /\ waitingUsers' = m.waiting
                /\ activeRooms' = m.active
                /\ roomCount' = m.count
                /\ rooms' = m.rms
                /\ emits' = IF m.matched THEN m.out
                            ELSE <<[to |-> s, ev |-> "waiting-for-match"]>>
    /\ UNCHANGED <<connectedUsers, open, phase, dpc, droom, now, ticks, sweep>>

\* process.exit(1): the process and everything it holds in memory is gone,
\* every transport is closed and no handler runs any more
ProcessExit ==
    /\ connectedUsers' = {}
    /\ waitingUsers' = <<>>
    /\ activeRooms' = [j \in {} |-> NoRoom]
    /\ roomCount' = 0
    /\ rooms' = [t \in Sockets |-> {}]
    /\ open' = [t \in Sockets |-> FALSE]
    /\ phase' = [t \in Sockets |-> "exited"]
    /\ fm' = [t \in Sockets |-> 0]
    /\ dpc' = [t \in Sockets |-> "idle"]
    /\ droom' = [t \in Sockets |-> NoRoom]
    /\ sweep' = SweepIdle
    /\ emits' = <<>>
    /\ UNCHANGED <<now, ticks>>

\* the SELECT of the find-match handler rejected: the async handler has no
\* try/catch, its promise rejects unhandled, and the unhandledRejection
\* listener ends the process
FindMatchQueryFails(s) ==
    /\ fm[s] > 0
    /\ ProcessExit

\* the body of the skip-user handler for room name r, run on waiting list W,
\* room map AR and socket rooms RM when generateRoomId has produced count ids
SkipRun(s, r, W, AR, RM, count) ==
    LET \* socket.to(roomId).emit: the sockets joined to r but the sender
        targets == SetToSeq({t \in Sockets \ {s} : r \in RM[t]})
        skipped == [i \in DOMAIN targets |->
                      [to |-> targets[i], ev |-> "partner-skipped"]]
        RM1 == Leave(RM, s, r)
        hasRoom == r \in DOMAIN AR
        otherUserId == OtherUser(AR[r].users, s)
        RM2 == IF hasRoom /\ otherUserId \in connectedUsers
               THEN Leave(RM1, otherUserId, r) ELSE RM1
        AR2 == IF hasRoom THEN MapDelete(AR, r) ELSE AR
        m == findMatchAt(s, W, AR2, RM2, count)
    IN  [waiting |-> m.waiting,
         active |-> m.active,
         count |-> m.count,
         rms |-> m.rms,
         out |-> skipped \o
                 (IF m.matched THEN m.out
                  ELSE <<[to |-> s, ev |-> "waiting-for-match"]>>)]

\* socket.on("skip-user")
SkipUser(s, r) ==
    /\ open[s]
    /\ phase[s] = "attached"
    /\ roomCount < MaxRooms
    /\ LET m == SkipRun(s, r, waitingUsers, activeRooms, rooms, roomCount)
       IN  /\ waitingUsers' = m.waiting
           /\ activeRooms' = m.active
           /\ roomCount' = m.count
           /\ rooms' = m.rms
           /\ emits' = m.out
    /\ UNCHANGED <<connectedUsers, open, phase, fm, dpc, droom, now, ticks, sweep>>

\* the transport of a socket closes: socket.io leaves all its rooms, then
\* fires "disconnect"; the handler runs up to `await query(UPDATE user_sessions)`.
\* A socket whose handlers are not attached yet has no disconnect handler.
Close(s) ==
    /\ open[s]
    /\ open' = [open EXCEPT ![s] = FALSE]
    /\ rooms' = [rooms EXCEPT ![s] = {}]
    /\ dpc' = [dpc EXCEPT ![s] = IF phase[s] = "attached" THEN "update" ELSE @]
    /\ emits' = <<>>
    /\ UNCHANGED <<connectedUsers, waitingUsers, activeRooms, roomCount, phase,
                   fm, droom, now, ticks, sweep>>

\* rooms of the map that list s, in Map iteration (= insertion) order
RoomsOf(AR, s) == {j \in DOMAIN AR : s \in Range(AR[j].users)}

\* disconnect handler after the UPDATE user_sessions resolved: leaves the
\* waiting list and scans activeRooms up to the first room listing the socket
DisconnectScan(s) ==
    /\ dpc[s] = "update"
    /\ waitingUsers' = SeqDelete(waitingUsers, s)
    /\ IF RoomsOf(activeRooms, s) # {}
       THEN LET roomId == Min(RoomsOf(activeRooms, s))
            IN  /\ droom' = [droom EXCEPT ![s] =
                               [id |-> roomId, users |-> activeRooms[roomId].users]]
                /\ dpc' = [dpc EXCEPT ![s] = "room"]
                /\ UNCHANGED connectedUsers
       ELSE /\ connectedUsers' = connectedUsers \ {s}
            /\ dpc' = [dpc EXCEPT ![s] = "done"]
            /\ UNCHANGED droom
    /\ emits' = <<>>
    /\ UNCHANGED <<activeRooms, roomCount, rooms, open, phase, fm, now, ticks, sweep>>

\* disconnect handler after the UPDATEs of chat_rooms and room_participants
\* resolved: notifies the other user, deletes the room, forgets the socket
DisconnectRoom(s) ==
    /\ dpc[s] = "room"
    /\ LET roomId == droom[s].id
           otherUserId == OtherUser(droom[s].users, s)
           notify == otherUserId \in connectedUsers
       IN  /\ emits' = IF notify
                       THEN <<[to |-> otherUserId, ev |-> "partner-disconnected"]>>
                       ELSE <<>>
           /\ rooms' = IF notify THEN Leave(rooms, otherUserId, roomId) ELSE rooms
           /\ activeRooms' = IF roomId \in DOMAIN activeRooms
                             THEN MapDelete(activeRooms, roomId) ELSE activeRooms
    /\ connectedUsers' = connectedUsers \ {s}
    /\ dpc' = [dpc EXCEPT ![s] = "done"]
    /\ droom' = [droom EXCEPT ![s] = NoRoom]
    /\ UNCHANGED <<waitingUsers, roomCount, open, phase, fm, now, ticks, sweep>>

\* a query of the disconnect handler rejects: the catch block logs and the
\* handler ends without the rest of its cleanup
DisconnectQueryFails(s) ==
    /\ dpc[s] \in {"update", "room"}
    /\ dpc' = [dpc EXCEPT ![s] = "failed"]
    /\ droom' = [droom EXCEPT ![s] = NoRoom]
    /\ emits' = <<>>
    /\ UNCHANGED <<connectedUsers, waitingUsers, activeRooms, roomCount, rooms,
                   open, phase, fm, now, ticks, sweep>>

\* time passes: by exactly the age threshold, or by one millisecond more
TickSteps == {RoomMaxAgeMs, RoomMaxAgeMs + 1}

Tick ==
    /\ ticks < MaxTicks
    /\ ticks' = ticks + 1
    /\ \E d \in TickSteps : now' = now + d
    /\ emits' = <<>>
    /\ UNCHANGED <<connectedUsers, waitingUsers, activeRooms, roomCount, rooms,
                   open, phase, fm, dpc, droom, sweep>>

\* the sweep's loop from Map position pos with its clock reading t: runs to
\* the first room older than the threshold, deletes it and awaits the UPDATE
\* of chat_rooms; or runs to the end of the map
StaleAfter(AR, pos, t) ==
    {j \in DOMAIN AR : j > pos /\ t - AR[j].createdAt > RoomMaxAgeMs}

SweepLoop(pos, t) ==
    /\ IF StaleAfter(activeRooms, pos, t) # {}
       THEN LET roomId == Min(StaleAfter(activeRooms, pos, t))
            IN  /\ activeRooms' = MapDelete(activeRooms, roomId)
                /\ sweep' = [pc |-> "await", now |-> t, pos |-> roomId]
       ELSE /\ sweep' = SweepIdle
            /\ UNCHANGED activeRooms
    /\ emits' = <<>>
    /\ UNCHANGED <<connectedUsers, waitingUsers, roomCount, rooms, open, phase,
                   fm, dpc, droom, now, ticks>>

\* the setInterval callback fires
SweepStart ==
    /\ sweep.pc = "idle"
    /\ SweepLoop(0, now)

\* the UPDATE chat_rooms of the sweep resolved: the loop goes on
SweepResume ==
    /\ sweep.pc = "await"
    /\ SweepLoop(sweep.pos, sweep.now)

\* the UPDATE chat_rooms of the sweep rejects: the catch block ends the run
SweepQueryFails ==
    /\ sweep.pc = "await"
    /\ sweep' = SweepIdle
    /\ emits' = <<>>
    /\ UNCHANGED <<connectedUsers, waitingUsers, activeRooms, roomCount, rooms,
                   open, phase, fm, dpc, droom, now, ticks>>

\* the event a relay handler emits for the event it received
OutEvent(kind) ==
    CASE kind = "toggle-camera" -> "partner-camera-toggle"
      [] kind = "toggle-mic" -> "partner-mic-toggle"
      [] OTHER -> kind

\* socket.on("webrtc-offer" | "webrtc-answer" | "webrtc-ice-candidate" |
\* "chat-message" | "toggle-camera" | "toggle-mic"):
\* socket.to(data.roomId).emit(event, {payload, from: socket.id})
RelayEmits(s, kind, r, body) ==
    LET targets == BroadcastTargets(s, r)
    IN  [i \in DOMAIN targets |->
            [to |-> targets[i], ev |-> OutEvent(kind), via |-> r,
             from |-> s, body |-> body,
             timestamp |-> IF kind = "chat-message" THEN now ELSE 0]]

Relay_leaves(s, kind, r, body) ==
    /\ open[s]
    /\ phase[s] = "attached"
    /\ emits' = RelayEmits(s, kind, r, body)
    /\ rooms' = Leave(rooms, s, r)
    /\ UNCHANGED <<connectedUsers, waitingUsers, activeRooms, roomCount,
                   open, phase, fm, dpc, droom, now, ticks, sweep>>

Relay(s, kind, r, body) ==
    /\ open[s]
    /\ phase[s] = "attached"
    /\ emits' = RelayEmits(s, kind, r, body)
    /\ UNCHANGED <<connectedUsers, waitingUsers, activeRooms, roomCount, rooms,
                   open, phase, fm, dpc, droom, now, ticks, sweep>>

\* a step of a socket handler: no HTTP route runs
NoRefresh == UNCHANGED <<refreshTokens, req, clock>>

\* a step that is not about relay traffic
NoRelayTraffic == NoRefresh /\ UNCHANGED <<inbox, recv, sent>>

Next ==
    \/ \E s \in Sockets : \E cred \in Credentials : \E dbOk \in BOOLEAN :
          Handshake(s, cred, dbOk) /\ NoRelayTraffic
    \/ \E s \in Sockets : AttachHandlers(s) /\ NoRelayTraffic
    \/ \E s \in Sockets : FindMatchEvent(s) /\ NoRelayTraffic
    \/ \E s \in Sockets : FindMatchResume(s) /\ NoRelayTraffic
    \/ \E s \in Sockets : \E r \in RoomNames \ {s} : SkipUser(s, r) /\ NoRelayTraffic
    \/ \E s \in Sockets : Close(s) /\ NoRelayTraffic
    \/ \E s \in Sockets : DisconnectScan(s) /\ NoRelayTraffic
    \/ \E s \in Sockets : DisconnectRoom(s) /\ NoRelayTraffic
    \/ \E s \in Sockets : DisconnectQueryFails(s) /\ NoRelayTraffic
    \/ Tick /\ NoRelayTraffic
    \/ SweepStart /\ NoRelayTraffic
    \/ SweepResume /\ NoRelayTraffic
    \/ SweepQueryFails /\ NoRelayTraffic

Spec == Init /\ [][Next]_vars
RelayEvents == {OutEvent(kind) : kind \in RelayKinds}

\* the last step was a relay that reached somebody
Relayed == \E i \in DOMAIN emits : emits[i].ev \in RelayEvents

\* the matchmaking handlers together with the relay handlers, at clock 0.
\* A relay changes no registry, so a relay that follows a relay reaches the
\* state it reaches from the state before the first one: only relays that
\* follow another kind of step are explored.
NextRelay ==
    \/ \E s \in Sockets : Connect(s) /\ NoRelayTraffic
    \/ \E s \in Sockets : AttachHandlers(s) /\ NoRelayTraffic
    \/ \E s \in Sockets : FindMatchEvent(s) /\ NoRelayTraffic
    \/ \E s \in Sockets : FindMatchResume(s) /\ NoRelayTraffic
    \/ \E s \in Sockets : \E r \in RoomNames \ {s} : SkipUser(s, r) /\ NoRelayTraffic
    \/ \E s \in Sockets : Close(s) /\ NoRelayTraffic
    \/ \E s \in Sockets : DisconnectScan(s) /\ NoRelayTraffic
    \/ \E s \in Sockets : DisconnectRoom(s) /\ NoRelayTraffic
    \/ /\ ~Relayed
       /\ \E s \in Sockets : \E kind \in RelayKinds : \E r \in RoomNames \ {s} :
             \E body \in Payloads : Relay(s, kind, r, body)
       /\ NoRelayTraffic

SpecRelay == Init /\ [][NextRelay]_vars

\* the matchmaking handlers at clock 0, where the SELECT of find-match may
\* reject as well as resolve
NextFailure ==
    \/ \E s \in Sockets : Connect(s) /\ NoRelayTraffic
    \/ \E s \in Sockets : AttachHandlers(s) /\ NoRelayTraffic
    \/ \E s \in Sockets : FindMatchEvent(s) /\ NoRelayTraffic
    \/ \E s \in Sockets : FindMatchResume(s) /\ NoRelayTraffic
    \/ \E s \in Sockets : FindMatchQueryFails(s) /\ NoRelayTraffic
    \/ \E s \in Sockets : \E r \in RoomNames \ {s} : SkipUser(s, r) /\ NoRelayTraffic
    \/ \E s \in Sockets : Close(s) /\ NoRelayTraffic
    \/ \E s \in Sockets : DisconnectScan(s) /\ NoRelayTraffic
    \/ \E s \in Sockets : DisconnectRoom(s) /\ NoRelayTraffic

SpecFailure == Init /\ [][NextFailure]_vars

\* ------------------------------------------------------- relay traffic
\* kinds of the signaling exchange whose order matters
OrderKinds == {"webrtc-offer", "webrtc-ice-candidate"}

\* a client emits a relay event naming room r; its payload is numbered in
\* the order of sending.  The transport delivers a socket's events in order
ClientSend(s, kind, r) ==
    /\ open[s]
    /\ phase[s] \in {"inserting", "attached"}
    /\ sent < MaxSent
    /\ sent' = sent + 1
    /\ inbox' = [inbox EXCEPT ![s] =
                    Append(@, [kind |-> kind, roomId |-> r, body |-> sent + 1])]
    /\ emits' = <<>>
    /\ UNCHANGED <<connectedUsers, waitingUsers, activeRooms, roomCount, rooms,
                   open, phase, fm, dpc, droom, now, ticks, sweep, recv>>

\* the event the server dispatches next for socket s
NextEvent(q) == Head(q)

\* mutant: the relay handlers await before they emit, so the events of one
\* socket are relayed in the order their awaits resolve
RelayHandle_unordered(s) ==
    /\ inbox[s] # <<>>
    /\ open[s]
    /\ \E m \in Range(inbox[s]) :
           /\ inbox' = [inbox EXCEPT ![s] = SeqDelete(@, m)]
           /\ IF phase[s] = "attached"
              THEN /\ Relay(s, m.kind, m.roomId, m.body)
                   /\ recv' = [t \in Sockets |->
                                 recv[t] \o SelectSeq(emits', LAMBDA e : e.to = t)]
              ELSE /\ emits' = <<>>
                   /\ UNCHANGED <<connectedUsers, waitingUsers, activeRooms,
                                  roomCount, rooms, open, phase, fm, dpc, droom,
                                  now, ticks, sweep, recv>>
    /\ UNCHANGED sent

\* socket.io dispatches the next event of socket s: its relay handler runs
\* to its end (the relay handlers have no await); an event that arrives
\* before the handlers are attached has no listener and is dropped
RelayHandle(s) ==
    /\ inbox[s] # <<>>
    /\ open[s]
    /\ LET m == NextEvent(inbox[s])
       IN  /\ inbox' = [inbox EXCEPT ![s] = SeqDelete(@, m)]
           /\ IF phase[s] = "attached"
              THEN /\ Relay(s, m.kind, m.roomId, m.body)
                   /\ recv' = [t \in Sockets |->
                                 recv[t] \o SelectSeq(emits', LAMBDA e : e.to = t)]
              ELSE /\ emits' = <<>>
                   /\ UNCHANGED <<connectedUsers, waitingUsers, activeRooms,
                                  roomCount, rooms, open, phase, fm, dpc, droom,
                                  now, ticks, sweep, recv>>
    /\ UNCHANGED sent

\* the transport of s closes: what it had sent and was not dispatched is lost
CloseTransport(s) ==
    /\ Close(s)
    /\ inbox' = [inbox EXCEPT ![s] = <<>>]
    /\ UNCHANGED <<recv, sent>>

\* the matchmaking handlers together with clients sending relay events
NextOrder ==
    \/ \E s \in Sockets : Connect(s) /\ NoRelayTraffic
    \/ \E s \in Sockets : AttachHandlers(s) /\ NoRelayTraffic
    \/ \E s \in Sockets : FindMatchEvent(s) /\ NoRelayTraffic
    \/ \E s \in Sockets : FindMatchResume(s) /\ NoRelayTraffic
    \/ \E s \in Sockets : CloseTransport(s) /\ NoRefresh
    \/ \E s \in Sockets : \E kind \in OrderKinds : \E r \in RoomIds :
          ClientSend(s, kind, r) /\ NoRefresh
    \/ \E s \in Sockets : RelayHandle(s) /\ NoRefresh

SpecOrder == Init /\ [][NextOrder]_vars

\* ------------------------------------------------------- refresh tokens
\* jwt.sign({userId, email, type: "refresh"}, secret, {expiresIn}): the
\* payload gets iat, in seconds, so the tokens one user is given within one
\* second are the same string.  One user; a token is named by its iat
generateRefreshToken(sec) == sec

\* jwt.verify: the signature is good and exp = iat + 7d has not passed
verifyRefreshToken(kind, token) ==
    kind = "signed" /\ token + RefreshLifetimeSec > clock

\* SELECT * FROM refresh_tokens WHERE token = $1 AND is_revoked = false AND
\* expires_at > NOW(): rows.length > 0
isRefreshTokenValid(token, table) ==
    /\ token \in DOMAIN table
    /\ ~table[token].is_revoked
    /\ table[token].expires_at > clock

\* UPDATE refresh_tokens SET is_revoked = true WHERE token = $1
revokeRefreshToken(token, table) ==
    [t \in DOMAIN table |->
        IF t = token THEN [table[t] EXCEPT !.is_revoked = TRUE] ELSE table[t]]

\* INSERT INTO refresh_tokens (user_id, token, expires_at); the column token
\* is UNIQUE, so the INSERT of a string the table holds is rejected
CanSave(token, table) == token \notin DOMAIN table

\* expires_at is Date.now() + 7 days of the call, which generateTokenPair
\* makes in the second it signed the token in
saveRefreshToken(token, table) ==
    (token :> [is_revoked |-> FALSE, expires_at |-> token + RefreshLifetimeSec])
       @@ table

\* DELETE FROM refresh_tokens WHERE expires_at < NOW() OR is_revoked = true
cleanupExpiredTokens(table) ==
    [t \in {u \in DOMAIN table :
                ~(table[u].expires_at < clock \/ table[u].is_revoked)} |->
        table[t]]

NoMatchmaking ==
    UNCHANGED <<connectedUsers, waitingUsers, activeRooms, roomCount, rooms,
                open, phase, fm, dpc, droom, now, ticks, sweep, emits, inbox,
                recv, sent>>

Respond(q, status) ==
    req' = [req EXCEPT ![q].pc = "done", ![q].status = status]

\* POST /login of the user: generateTokenPair saves a new refresh token
Login ==
    /\ CanSave(generateRefreshToken(clock), refreshTokens)
    /\ refreshTokens' = saveRefreshToken(generateRefreshToken(clock), refreshTokens)
    /\ UNCHANGED <<req, clock>>
    /\ NoMatchmaking

ClockTick ==
    /\ clock < MaxSeconds
    /\ clock' = clock + 1
    /\ UNCHANGED <<refreshTokens, req>>
    /\ NoMatchmaking

\* POST /refresh arrives (requests are numbered in order of arrival); the
\* handler runs up to `await isRefreshTokenValid(refreshToken)`
RefreshStart(q, kind, token) ==
    /\ req[q].pc = "idle"
    /\ IF q = 1 THEN TRUE ELSE req[q - 1].pc # "idle"
    /\ kind = "signed" => token \in DOMAIN refreshTokens
    /\ kind # "signed" => token = 0
    /\ req' = [req EXCEPT ![q] =
                 IF kind # "none" /\ verifyRefreshToken(kind, token)
                 THEN [@ EXCEPT !.pc = "valid", !.kind = kind, !.token = token]
                 ELSE [@ EXCEPT !.pc = "done", !.kind = kind, !.token = token,
                                !.status = 401]]
    /\ UNCHANGED <<refreshTokens, clock>>
    /\ NoMatchmaking

\* the SELECT of isRefreshTokenValid is answered; on a row the handler goes
\* on to `await query(SELECT ... FROM users)`
RefreshValid(q) ==
    /\ req[q].pc = "valid"
    /\ IF isRefreshTokenValid(req[q].token, refreshTokens)
       THEN req' = [req EXCEPT ![q].pc = "user"]
       ELSE Respond(q, 401)
    /\ UNCHANGED <<refreshTokens, clock>>
    /\ NoMatchmaking

\* the user row is answered; an active user takes the handler to
\* `await revokeRefreshToken(refreshToken)`
RefreshUser(q, active) ==
    /\ req[q].pc = "user"
    /\ IF active
       THEN req' = [req EXCEPT ![q].pc = "revoke"]
       ELSE Respond(q, 401)
    /\ UNCHANGED <<refreshTokens, clock>>
    /\ NoMatchmaking

\* the UPDATE of revokeRefreshToken is done; generateTokenPair signs the new
\* tokens and awaits saveRefreshToken
RefreshRevoke(q) ==
    /\ req[q].pc = "revoke"
    /\ refreshTokens' = revokeRefreshToken(req[q].token, refreshTokens)
    /\ req' = [req EXCEPT ![q].pc = "save",
                          ![q].pair = <<generateRefreshToken(clock)>>]
    /\ UNCHANGED clock
    /\ NoMatchmaking

\* the INSERT of saveRefreshToken is answered: res.json({tokens}), or the
\* catch when the same string is in the table already
RefreshSave(q) ==
    /\ req[q].pc = "save"
    /\ IF CanSave(req[q].pair[1], refreshTokens)
       THEN /\ refreshTokens' = saveRefreshToken(req[q].pair[1], refreshTokens)
            /\ Respond(q, 200)
       ELSE /\ req' = [req EXCEPT ![q].pc = "done", ![q].status = 401,
                                  ![q].pair = <<>>]
            /\ UNCHANGED refreshTokens
    /\ UNCHANGED clock
    /\ NoMatchmaking

\* a query of the handler rejects: catch, 401 "Invalid refresh token"
RefreshQueryFails(q) ==
    /\ req[q].pc \in {"valid", "user", "revoke", "save"}
    /\ req' = [req EXCEPT ![q].pc = "done", ![q].status = 401, ![q].pair = <<>>]
    /\ UNCHANGED <<refreshTokens, clock>>
    /\ NoMatchmaking

\* the periodic cleanup deletes expired and revoked rows
CleanupTokens ==
    /\ cleanupExpiredTokens(refreshTokens) # refreshTokens
    /\ refreshTokens' = cleanupExpiredTokens(refreshTokens)
    /\ UNCHANGED <<req, clock>>
    /\ NoMatchmaking

NextRefresh ==
    \/ Login
    \/ ClockTick
    \/ \E q \in Requests : \E kind \in BodyKinds : \E token \in Seconds :
          RefreshStart(q, kind, token)
    \/ \E q \in Requests : RefreshValid(q)
    \/ \E q \in Requests : \E active \in BOOLEAN : RefreshUser(q, active)
    \/ \E q \in Requests : RefreshRevoke(q)
    \/ \E q \in Requests : RefreshSave(q)
    \/ \E q \in Requests : RefreshQueryFails(q)
    \/ CleanupTokens

SpecRefresh == Init /\ [][NextRefresh]_vars

\* ------------------------------------------------------------------ claims
IsEvent(i, ev) == i \in DOMAIN emits /\ emits[i].ev = ev

\* events `ev` the last step emitted to socket t
Received(t, ev) == {i \in DOMAIN emits : emits[i].ev = ev /\ emits[i].to = t}

\* rooms a step added to activeRooms
NewRooms == (DOMAIN activeRooms') \ (DOMAIN activeRooms)

\* C1: no session id is listed among the users of two distinct entries of
\* activeRooms
C1_OneRoomPerSession ==
    \A s \in Sockets : Cardinality(RoomsOf(activeRooms, s)) <= 1

\* C2: every step that creates a room creates exactly one, with a partner
\* that was in waitingUsers before the step and that the same step removed
\* from waitingUsers (together with the caller), and waitingUsers never
\* lists an id twice: a waiting session is picked by at most one pairing
C2_PairingStep ==
    /\ Cardinality(NewRooms) <= 1
    /\ \A r \in NewRooms :
          LET users == activeRooms'[r].users
          IN  /\ Len(users) = 2
              /\ users[2] \in Range(waitingUsers)
              /\ users[2] \notin Range(waitingUsers')
              /\ users[1] \notin Range(waitingUsers')
    /\ \A i, j \in DOMAIN waitingUsers' :
          waitingUsers'[i] = waitingUsers'[j] => i = j

C2_ExactlyOncePairing == [][C2_PairingStep]_vars

\* a pairing has just taken a session out of a waiting list that still
\* holds another session
C2_Witness ==
    /\ \E i \in DOMAIN emits : emits[i].ev = "matched"
    /\ waitingUsers # <<>>

\* C3: a relay event naming an active room R, sent by a session that is not
\* a member of R, is delivered to nobody
C3_NonMemberRelayDropped ==
    \A i \in DOMAIN emits :
        (/\ emits[i].ev \in RelayEvents
         /\ emits[i].via \in DOMAIN activeRooms
         /\ emits[i].from \notin Range(activeRooms[emits[i].via].users))
        => FALSE
\* the session whose handler made the step: a find-match handler resuming
\* after its query, or a skip-user handler
Triggered(c) ==
    \/ FindMatchResume(c)
    \/ \E r \in RoomNames \ {c} : SkipUser(c, r)

\* matched events the step sent to t for room r with initiator flag b
MatchedTo(t, r, b) ==
    {i \in DOMAIN emits' : /\ emits'[i].ev = "matched"
                           /\ emits'[i].to = t
                           /\ emits'[i].roomId = r
                           /\ emits'[i].isInitiator = b}

\* C4: every entry of activeRooms lists exactly two distinct session ids,
\* both in connectedUsers and matched (joined to the room, not waiting)
C4_RoomMembersConnectedAndMatched ==
    \A r \in DOMAIN activeRooms :
        LET users == activeRooms[r].users
        IN  /\ Len(users) = 2
            /\ users[1] # users[2]
            /\ \A k \in 1..2 : /\ users[k] \in connectedUsers
                               /\ users[k] \notin Range(waitingUsers)
                               /\ r \in rooms[users[k]]

\* C5: no id is in waitingUsers and a member of an active room at once, and
\* every id in waitingUsers is a connected session
C5_WaitingNeverRoomMember ==
    \A s \in Range(waitingUsers) :
        /\ RoomsOf(activeRooms, s) = {}
        /\ s \in connectedUsers

\* C6: a session joined to the socket.io room of a room id is listed by the
\* activeRooms entry of that id
C6_JoinedRoomIsActive ==
    \A s \in Sockets : \A r \in rooms[s] \cap RoomIds :
        /\ r \in DOMAIN activeRooms
        /\ s \in Range(activeRooms[r].users)

\* C7: when A is the only id in waitingUsers and another connected session B
\* runs find-match, one room {A,B} is created, neither is waiting afterwards
\* and each gets exactly one matched event with the room id and the other's id
C7_PairsOnlyWaiter ==
    [][\A b \in Sockets :
         (/\ FindMatchResume(b)
          /\ b \in connectedUsers
          /\ Len(waitingUsers) = 1
          /\ waitingUsers[1] # b)
         => LET a == waitingUsers[1]
            IN  /\ Cardinality(NewRooms) = 1
                /\ \A r \in NewRooms :
                     /\ Range(activeRooms'[r].users) = {a, b}
                     /\ \E i \in DOMAIN emits' :
                          /\ emits'[i].ev = "matched" /\ emits'[i].to = a
                          /\ emits'[i].roomId = r /\ emits'[i].partnerId = b
                     /\ \E i \in DOMAIN emits' :
                          /\ emits'[i].ev = "matched" /\ emits'[i].to = b
                          /\ emits'[i].roomId = r /\ emits'[i].partnerId = a
                /\ Len(emits') = 2
                /\ a \notin Range(waitingUsers')
                /\ b \notin Range(waitingUsers')]_vars

\* C8: in every room a find-match or skip-user handler creates, the session
\* whose handler it is gets the one matched event with isInitiator = TRUE and
\* the other member, which was waiting, gets the one with isInitiator = FALSE
C8_InitiatorStep ==
    \A r \in NewRooms :
        \A c \in Sockets : Triggered(c) =>
            \E w \in Range(waitingUsers) \ {c} :
                /\ Range(activeRooms'[r].users) = {c, w}
                /\ Cardinality(MatchedTo(c, r, TRUE)) = 1
                /\ Cardinality(MatchedTo(w, r, FALSE)) = 1
                /\ MatchedTo(c, r, FALSE) = {}
                /\ MatchedTo(w, r, TRUE) = {}

C8_CallerIsInitiator == [][C8_InitiatorStep]_vars

\* a pairing has just told one session to initiate and the other not to
C8_Witness ==
    \E i, j \in DOMAIN emits :
        /\ emits[i].ev = "matched" /\ emits[i].isInitiator
        /\ emits[j].ev = "matched" /\ ~emits[j].isInitiator
        /\ emits[i].roomId = emits[j].roomId
        /\ emits[i].to = emits[j].partnerId

\* C9: after skip-user on active room R by its member A, the partner B got
\* exactly one partner-skipped and A none, R is gone, neither is joined to R,
\* and A got exactly one of matched and waiting-for-match
C9_SkipClosesRoom ==
    [][\A a \in Sockets : \A r \in RoomIds :
         (/\ SkipUser(a, r)
          /\ r \in DOMAIN activeRooms
          /\ a \in Range(activeRooms[r].users))
         => LET b == OtherUser(activeRooms[r].users, a)
                skippedTo(t) == {i \in DOMAIN emits' :
                                   emits'[i].ev = "partner-skipped" /\ emits'[i].to = t}
                answers == {i \in DOMAIN emits' :
                               /\ emits'[i].to = a
                               /\ emits'[i].ev \in {"matched", "waiting-for-match"}}
            IN  /\ Cardinality(skippedTo(b)) = 1
                /\ skippedTo(a) = {}
                /\ r \notin DOMAIN activeRooms'
                /\ r \notin rooms'[a]
                /\ r \notin rooms'[b]
                /\ Cardinality(answers) = 1]_vars

\* the disconnect handler of s ends in this step
DisconnectEnds(s) ==
    /\ dpc[s] \in {"update", "room"}
    /\ dpc'[s] \in {"done", "failed"}

\* C10: when the disconnect handler of a member of active room R ends, the
\* partner got exactly one partner-disconnected, R is gone, the partner is not
\* joined to R, and the session is in neither connectedUsers nor waitingUsers
C10_DisconnectClosesRoom ==
    [][\A s \in Sockets : \A r \in RoomIds :
         (/\ DisconnectEnds(s)
          /\ r \in DOMAIN activeRooms
          /\ s \in Range(activeRooms[r].users))
         => LET b == OtherUser(activeRooms[r].users, s)
            IN  /\ Cardinality({i \in DOMAIN emits' :
                                  /\ emits'[i].ev = "partner-disconnected"
                                  /\ emits'[i].to = b}) = 1
                /\ r \notin DOMAIN activeRooms'
                /\ r \notin rooms'[b]
                /\ s \notin connectedUsers'
                /\ s \notin Range(waitingUsers')]_vars

\* C11: a waiting session whose transport has closed is out of waitingUsers
\* at once: no later find-match or skip-user makes a room with it or sends a
\* matched event naming it as partner
C11_DisconnectedNeverPaired ==
    [][/\ \A r \in NewRooms : open[activeRooms'[r].users[2]]
       /\ \A i \in DOMAIN emits' :
            (emits'[i].ev = "matched" /\ emits'[i].isInitiator)
            => open[emits'[i].partnerId]]_vars

\* C12: a find-match by a member of an active room is answered with
\* already-in-room carrying that room's id, and changes neither waitingUsers
\* nor activeRooms nor any membership
C12_AlreadyInRoom ==
    [][\A s \in Sockets :
         (/\ fm'[s] < fm[s]
          /\ RoomsOf(activeRooms, s) # {})
         => /\ \E r \in RoomsOf(activeRooms, s) :
                 emits' = <<[to |-> s, ev |-> "already-in-room", roomId |-> r]>>
            /\ UNCHANGED <<waitingUsers, activeRooms, rooms, connectedUsers>>]_vars

\* C13: a relay event sent by a member of an active room R and naming R is
\* delivered exactly once to the other member and to nobody else, as the
\* matching outbound event with the payload unchanged and from = the sender
C13_RelayToPartnerOnly ==
    [][\A s \in Sockets : \A kind \in RelayKinds : \A r \in RoomIds :
         \A body \in Payloads :
           (/\ Relay(s, kind, r, body)
            /\ r \in DOMAIN activeRooms
            /\ s \in Range(activeRooms[r].users))
           => LET b == OtherUser(activeRooms[r].users, s)
              IN  /\ Len(emits') = 1
                  /\ emits'[1].to = b
                  /\ emits'[1].ev = OutEvent(kind)
                  /\ emits'[1].from = s
                  /\ emits'[1].body = body]_vars

\* C14: a relay event naming a room id that has no entry in activeRooms
\* (never created, or closed by skip, disconnect or the sweep) is delivered to
\* no session
C14_ClosedRoomRelayDropped ==
    \A i \in DOMAIN emits :
        (emits[i].ev \in RelayEvents /\ emits[i].via \in RoomIds)
        => emits[i].via \in DOMAIN activeRooms

\* C15: a skip-user naming an active room the sender is not a member of
\* sends nobody a partner-skipped and leaves the room in activeRooms with
\* both members still joined
C15_NonMemberSkipHarmless ==
    [][\A s \in Sockets : \A r \in RoomIds :
         (/\ r \in DOMAIN activeRooms
          /\ s \notin Range(activeRooms[r].users)
          /\ SkipUser(s, r))
         => /\ \A i \in DOMAIN emits' : emits'[i].ev # "partner-skipped"
            /\ r \in DOMAIN activeRooms'
            /\ activeRooms'[r] = activeRooms[r]
            /\ \A u \in Range(activeRooms[r].users) :
                 r \in rooms[u] => r \in rooms'[u]]_vars

\* the whole disconnect handler (waitingUsers.delete, the loop over
\* activeRooms with its break, connectedUsers.delete) run with every query
\* resolving, on registries CU, W, AR and socket rooms RM
DisconnectRun(s, CU, W, AR, RM) ==
    LET found == RoomsOf(AR, s) # {}
        roomId == Min(RoomsOf(AR, s))
        otherUserId == OtherUser(AR[roomId].users, s)
        notify == found /\ otherUserId \in CU
    IN  [connected |-> CU \ {s},
         waiting |-> SeqDelete(W, s),
         active |-> IF found THEN MapDelete(AR, roomId) ELSE AR,
         rms |-> IF notify THEN Leave(RM, otherUserId, roomId) ELSE RM,
         out |-> IF notify
                 THEN <<[to |-> otherUserId, ev |-> "partner-disconnected"]>>
                 ELSE <<>>]

\* C16: the disconnect cleanup is idempotent: run again for a session whose
\* disconnect handler has just completed, it emits no partner-disconnected
\* and leaves connectedUsers, waitingUsers and activeRooms as they are
C16_DisconnectIdempotent ==
    [][\A s \in Sockets :
         (dpc[s] # "done" /\ dpc'[s] = "done")
         => LET again == DisconnectRun(s, connectedUsers', waitingUsers',
                                       activeRooms', rooms')
            IN  /\ again.out = <<>>
                /\ again.connected = connectedUsers'
                /\ again.waiting = waitingUsers'
                /\ again.active = activeRooms']_vars

\* C17: the skip handler is idempotent: when a session's skip-user has closed
\* a room, a second skip-user by it for the same room emits nothing and
\* leaves waitingUsers, activeRooms and every membership as they are
C17_SkipIdempotent ==
    [][\A a \in Sockets : \A r \in RoomIds :
         (/\ r \in DOMAIN activeRooms
          /\ a \in Range(activeRooms[r].users)
          /\ SkipUser(a, r))
         => LET again == SkipRun(a, r, waitingUsers', activeRooms', rooms',
                                 roomCount')
            IN  /\ again.out = <<>>
                /\ again.waiting = waitingUsers'
                /\ again.active = activeRooms'
                /\ again.rms = rooms']_vars

\* C18: the member left behind when its partner's skip-user or disconnect
\* closes their room is not in waitingUsers afterwards and is in no room the
\* step creates
C18_NoAutoRequeue ==
    [][\A r \in (DOMAIN activeRooms) \ (DOMAIN activeRooms') :
         \A a \in Range(activeRooms[r].users) :
           (\/ SkipUser(a, r)
            \/ /\ dpc[a] = "room" /\ dpc'[a] = "done"
               /\ droom[a].id = r)
           => LET b == OtherUser(activeRooms[r].users, a)
              IN  /\ b \notin Range(waitingUsers')
                  /\ \A n \in NewRooms :
                       b \notin Range(activeRooms'[n].users)]_vars

\* C19: when the find-match handler of a connected session runs with no other
\* session in waitingUsers, no room is created, the session is in waitingUsers
\* afterwards and it is sent exactly one waiting-for-match and no matched
C19_AloneStep ==
    \A s \in Sockets :
        (/\ fm'[s] < fm[s]
         /\ s \in connectedUsers
         /\ Range(waitingUsers) \subseteq {s})
        => /\ NewRooms = {}
           /\ activeRooms' = activeRooms
           /\ s \in Range(waitingUsers')
           /\ emits' = <<[to |-> s, ev |-> "waiting-for-match"]>>

C20_SweepClosesAllStale ==
    [][/\ (sweep.pc = "await" /\ sweep'.pc = "idle")
          => \A r \in DOMAIN activeRooms' :
                ~(sweep.now - activeRooms'[r].createdAt > RoomMaxAgeMs)
       /\ (sweep'.pc = "await" /\ sweep' # sweep)
          => \A r \in (DOMAIN activeRooms) \ (DOMAIN activeRooms') :
                sweep'.now - activeRooms[r].createdAt > RoomMaxAgeMs]_vars

\* C21: a connection whose handshake carries no token, a token that fails
\* verification or a token of an unknown or inactive user is refused: its id
\* is never in connectedUsers, in waitingUsers or among the users of a room
C21_RefusedStep ==
    \A s \in Sockets :
        /\ (phase[s] = "new" /\ phase'[s] # "new")
           => \A cred \in Credentials \ {"valid"} : \A dbOk \in BOOLEAN :
                 Handshake(s, cred, dbOk)
                 => /\ phase'[s] = "refused"
                    /\ s \notin connectedUsers'
        /\ phase[s] = "refused"
           => /\ phase'[s] = "refused"
              /\ s \notin connectedUsers'
              /\ s \notin Range(waitingUsers')
              /\ RoomsOf(activeRooms', s) = {}

C21_RefusedNeverRegistered == [][C21_RefusedStep]_vars

\* a connection has been refused while other sessions are matched in a room
C21_Witness ==
    \E s \in Sockets :
        /\ phase[s] = "refused"
        /\ s \notin connectedUsers
        /\ DOMAIN activeRooms # {}

\* C22: two connected sessions that are both waiting are eventually paired
\* rather than left in the queue together.  findMatch pairs a connected
\* session in the very step in which it would join a connected waiter, so two
\* connected sessions are never in waitingUsers at once
C22_NoTwoConnectedWaiting ==
    \A a, b \in Range(waitingUsers) :
        (a \in connectedUsers /\ b \in connectedUsers) => a = b

\* a connected session asked for a match while another was waiting: both are
\* now in one room and none is left in the queue
C22_Witness ==
    \E i, j \in DOMAIN emits :
        /\ emits[i].ev = "matched" /\ emits[j].ev = "matched"
        /\ emits[i].to # emits[j].to
        /\ {emits[i].to, emits[j].to} \subseteq connectedUsers
        /\ open[emits[i].to] /\ open[emits[j].to]
        /\ emits[i].roomId \in DOMAIN activeRooms
        /\ waitingUsers = <<>>

\* C23: relayed events keep the order of sending: of two events one sender
\* sent to one room, the one sent first is emitted first to a receiver
C23_OrderPreserved ==
    \A t \in Sockets : \A i, j \in DOMAIN recv[t] :
        (/\ i < j
         /\ recv[t][i].from = recv[t][j].from
         /\ recv[t][i].via = recv[t][j].via)
        => recv[t][i].body < recv[t][j].body

\* a member has received an offer and then an ICE candidate that its
\* partner sent, in that order, to their room
C23_Witness ==
    \E t \in Sockets :
        /\ Len(recv[t]) = 2
        /\ recv[t][1].ev = "webrtc-offer"
        /\ recv[t][2].ev = "webrtc-ice-candidate"
        /\ recv[t][1].from = recv[t][2].from
        /\ recv[t][1].via = recv[t][2].via
        /\ recv[t][1].via \in DOMAIN activeRooms
        /\ recv[t][1].body = 1 /\ recv[t][2].body = 2

\* C24: a session registered in connectedUsers is destroyed on disconnect,
\* whenever it disconnects: once its transport has closed and its connection
\* and disconnect handlers have run to their end, it is not in connectedUsers
C24_DestroyedOnDisconnect ==
    \A s \in Sockets :
        (/\ ~open[s]
         /\ phase[s] = "attached"
         /\ dpc[s] \in {"idle", "done", "failed"})
        => s \notin connectedUsers

\* C25: when a query of the disconnect handler fails, the session is still
\* removed from waitingUsers and connectedUsers, its room is still removed
\* from activeRooms and the partner is still sent partner-disconnected
C25_CleanupDespiteFailure ==
    [][\A s \in Sockets :
         (dpc[s] \in {"update", "room"} /\ dpc'[s] = "failed")
         => /\ s \notin Range(waitingUsers')
            /\ s \notin connectedUsers'
            /\ \A r \in RoomsOf(activeRooms, s) :
                 /\ r \notin DOMAIN activeRooms'
                 /\ \E i \in DOMAIN emits' :
                      /\ emits'[i].ev = "partner-disconnected"
                      /\ emits'[i].to = OtherUser(activeRooms[r].users, s)]_vars

\* C26: when the find-match handler of a connected session runs while
\* another connected session is in waitingUsers, a room with the caller is
\* created in that step, its two members are out of waitingUsers, and the
\* caller is not parked
C26_PairStep ==
    \A s \in Sockets :
        (/\ fm'[s] < fm[s]
         /\ s \in connectedUsers
         /\ \E w \in Range(waitingUsers) \ {s} : w \in connectedUsers)
        => /\ \E r \in NewRooms :
                /\ s \in Range(activeRooms'[r].users)
                /\ \A u \in Range(activeRooms'[r].users) :
                      u \notin Range(waitingUsers')
           /\ s \notin Range(waitingUsers')
           /\ \A i \in DOMAIN emits' : emits'[i].ev # "waiting-for-match"

C27_ThreeCategories ==
    [][\A s \in Sockets :
         (phase[s] = "new" /\ phase'[s] = "refused")
         => \A c1, c2 \in {"none", "invalid", "expired"} :
               (c1 # c2 /\ Handshake(s, c1, TRUE))
               => emits'[1].message # authenticateSocket(c2, TRUE).message]_vars

\* C28: when a session disconnected while its find-match awaited the lookup,
\* once the find-match and the disconnect handlers have both finished its id
\* is neither in waitingUsers nor in connectedUsers
C28_NoStaleQueueEntry ==
    \A s \in Sockets :
        (~open[s] /\ dpc[s] = "done" /\ fm[s] = 0)
        => /\ s \notin Range(waitingUsers)
           /\ s \notin connectedUsers

\* C29: after the disconnect handler of a session has completed, no entry of
\* activeRooms lists the session
C29_NoRoomAfterDisconnect ==
    \A s \in Sockets :
        dpc[s] = "done" => RoomsOf(activeRooms, s) = {}

\* C30: a find-match repeated by a session that is already alone in
\* waitingUsers leaves it there exactly once, creates no room and answers
\* waiting-for-match
C30_RepeatStep ==
    \A s \in Sockets :
        (/\ fm'[s] < fm[s]
         /\ Range(waitingUsers) = {s})
        => /\ waitingUsers' = <<s>>
           /\ activeRooms' = activeRooms
           /\ rooms' = rooms
           /\ emits' = <<[to |-> s, ev |-> "waiting-for-match"]>>

C31_LookupFailureIsLocal ==
    [][\A s \in Sockets :
          FindMatchQueryFails(s) =>
             /\ UNCHANGED <<connectedUsers, waitingUsers, activeRooms>>
             /\ \A t \in Sockets \ {s} :
                    /\ rooms'[t] = rooms[t]
                    /\ open'[t] = open[t]
                    /\ phase'[t] = phase[t]]_vars

\* a step that is a relay changes no registry.  A relay handler touches
\* nothing but the emitted events, so the steps that change a transport, a
\* handler position or emit another kind of event are set aside first
C32_RelayStep ==
    \/ UNCHANGED <<connectedUsers, waitingUsers, activeRooms, rooms>>
    \/ ~UNCHANGED <<open, phase, fm, dpc>>
    \/ \E i \in DOMAIN emits' : emits'[i].ev \notin RelayEvents
    \/ ~(\E s \in Sockets : \E kind \in RelayKinds : \E r \in RoomNames :
            \E body \in Payloads : Relay(s, kind, r, body))

\* C32: a relay event (offer, answer, ICE candidate, chat message, camera
\* or microphone toggle) changes none of connectedUsers, waitingUsers,
\* activeRooms and no session's room membership, whether it reaches
\* somebody or nobody
C32_RelayChangesNoRegistry == [][C32_RelayStep]_vars

\* a relay was delivered while one session waits and two share a room
C32_Witness ==
    /\ Relayed
    /\ waitingUsers # <<>>
    /\ \E j \in DOMAIN activeRooms : \E i \in DOMAIN emits :
          /\ emits[i].ev \in RelayEvents
          /\ emits[i].to \in Range(activeRooms[j].users)

\* requests presenting refresh token t that were answered with a new pair
Refreshed(t) ==
    {q \in Requests : req[q].kind = "signed" /\ req[q].token = t
                         /\ req[q].status = 200}

\* C33: a refresh token is accepted by POST /refresh at most once: of the
\* requests presenting one token, later or concurrent, at most one is
\* answered with a new token pair
C33_RefreshSingleUse == \A t \in Seconds : Cardinality(Refreshed(t)) <= 1
====
